---- MODULE Spec2Model ----
(***************************************************************************)
(* usbw: the asynchronous transfer engine of src/libusb (SafeTransfer, its *)
(* completion bridge and the native transfer it drives).                   *)
(*                                                                         *)
(* Two threads act on one SafeTransfer: the caller (pc) and the thread of  *)
(* the libusb event loop, which completes the native transfer and runs the *)
(* callback (cb).  Every atomic access to the bridge (is_active, the       *)
(* channel) is a step of its own; code that touches only caller-local      *)
(* state is folded into the step of the next shared access.                *)
(* debug_assert!s are compiled out (release build).                        *)
(*                                                                         *)
(* Spec drives one SafeTransfer and its reuse, ValidationSpec the checks   *)
(* made before a submit, CompletionSpec the outcomes of a completion,      *)
(* DeviceSpec the operations of AsyncDevice, SingleSpec those of           *)
(* SingleTransferDevice, SetterSpec a SafeTransfer with its setters,       *)
(* InterfacesSpec and DrainSpec the claim set (ClaimedInterfaces) and its  *)
(* iterator, HandleSpec the DeviceHandle that keeps it, PartsSpec the      *)
(* engine with into_parts, VersionSpec Version::new, AsyncSpec the event   *)
(* loop of an AsyncContext, ContextSpec the default-context counter.       *)
(***************************************************************************)
EXTENDS Integers, Sequences, FiniteSets, TLC

\* ------------------------------------------------------------------ bounds
\* Largest control payload (bytes after the 8-byte header) a buffer holds.
MaxData == 1
\* Polls of the event loop, and polls with events, that are told apart.
MaxPolls == 8
MaxEvents == 3
\* libusb_init(NULL) calls left unmatched, and Contexts of their own alive.
MaxInits == 8
MaxOthers == 2

\* ------------------------------------------------------- program constants
\* ControlSetup::SIZE = size_of::<ControlSetup>() (repr(C): u8,u8,u16,u16,u16)
SIZE == 8
\* mpsc::channel(1)
ChannelCapacity == 1
\* usize::MAX, what DEFAULT_CONTEXT_COUNT wraps to on a fetch_sub at 0
\* (2^64 - 1 on the target; the largest integer of the model here)
USIZE_MAX == 2147483647
\* libusb1_sys::constants used by is_read / is_write / is_endpoint_read
LIBUSB_ENDPOINT_DIR_MASK == 128
LIBUSB_ENDPOINT_IN == 128
LIBUSB_ENDPOINT_OUT == 0
\* libusb1_sys::constants used by the string-descriptor reads
LIBUSB_REQUEST_GET_DESCRIPTOR == 6
LIBUSB_DT_STRING == 3
\* get_string_descriptor reads into vec![0_u8; 255]
StringBufLen == 255
\* interfaces.rs: the highest interface number, the bytes of the claim set
INTERFACES_MAX == 255
INTERFACES_BYTE_LEN == 32

\* ---------------------------------------------------------------- domains
TransferTypes == {"Control", "Isochronous", "Bulk", "Interrupt", "Stream"}
Statuses == {"Completed", "Error", "TimedOut", "Cancelled", "Stall", "NoDevice", "Overflow"}
\* what the driver reports for the transfers of the engine: done, cancelled, timed out
DriverStatuses == {"Completed", "Cancelled", "TimedOut"}
\* endpoint addresses: an OUT and an IN endpoint (0 is the zeroed descriptor)
Endpoints == {1, 129}
\* request-type bytes: host-to-device class request, device-to-host standard
RequestTypes == {32, 128}
\* buffer lengths around the header size
BufLens == (SIZE - 1)..(SIZE + MaxData)
\* errors libusb_submit_transfer reports for a transfer that is not in flight
SubmitErrors == {"Io", "NoDevice"}
\* interface numbers the claim set is driven with: both ends of the first
\* byte, the start of the second, one in the middle, the last
InterfaceNumbers == {0, 6, 7, 8, 200, 255}
\* interface numbers the drain is driven with: the lowest, one higher in the
\* same byte, one in a later byte
DrainNumbers == {0, 6, 201}
\* arguments of Version::new (u8): around the 4-bit limit of minor and sub_minor
Majors == {0, 1, 2, 255}
Minors == {0, 9, 15, 16, 255}
SubMinors == {0, 1, 14, 15, 16, 255}

Ok(n) == [err |-> "Ok", len |-> n]
Err(e) == [err |-> e, len |-> 0]
NoResult == [err |-> "None", len |-> 0]

\* x & LIBUSB_ENDPOINT_DIR_MASK for a byte x
DirBits(x) == ((x \div LIBUSB_ENDPOINT_DIR_MASK) % 2) * LIBUSB_ENDPOINT_DIR_MASK

Zeros(n) == [i \in 1..n |-> 0]

\* ------------------------------------------------------------ ControlSetup
ControlSetup(request_type, request, value, index, len) ==
    [request_type |-> request_type, request |-> request, value |-> value,
     index |-> index, len |-> len]

\* a serialize that stores the u16 fields high byte first
serialize_be(s, b) ==
    [i \in 1..Len(b) |->
        CASE i = 1 -> s.request_type
          [] i = 2 -> s.request
          [] i = 3 -> s.value \div 256
          [] i = 4 -> s.value % 256
          [] i = 5 -> s.index \div 256
          [] i = 6 -> s.index % 256
          [] i = 7 -> s.len \div 256
          [] i = 8 -> s.len % 256
          [] OTHER -> b[i]]

\* ControlSetup::serialize: the 8 bytes written over the head of the buffer
\* (u16 fields to_le, then stored: low byte first)
serialize(s, b) ==
    [i \in 1..Len(b) |->
        CASE i = 1 -> s.request_type
          [] i = 2 -> s.request
          [] i = 3 -> s.value % 256
          [] i = 4 -> s.value \div 256
          [] i = 5 -> s.index % 256
          [] i = 6 -> s.index \div 256
          [] i = 7 -> s.len % 256
          [] i = 8 -> s.len \div 256
          [] OTHER -> b[i]]

\* ControlSetup::deserialize
deserialize(b) ==
    ControlSetup(b[1], b[2], b[3] + 256 * b[4], b[5] + 256 * b[6], b[7] + 256 * b[8])

\* the byte orders a build's host can have
Hosts == {"little", "big"}
\* u16::swap_bytes
swap_bytes(x) == (x % 256) * 256 + x \div 256

\* a to_le that leaves the value as it is on every host
to_le_unswapped(x, host) == x

\* u16::to_le on a host: the value whose native representation is x low byte first
to_le(x, host) == IF host = "little" THEN x ELSE swap_bytes(x)

\* u16::from_le on a host
from_le(x, host) == IF host = "little" THEN x ELSE swap_bytes(x)

\* the two bytes a host stores for a u16 field (ptr::write_unaligned of the
\* repr(C) struct) and the u16 it loads from two bytes (ptr::read_unaligned)
store_u16(x, host) ==
    IF host = "little" THEN << x % 256, x \div 256 >> ELSE << x \div 256, x % 256 >>
load_u16(lo, hi, host) == IF host = "little" THEN lo + 256 * hi ELSE lo * 256 + hi

\* ControlSetup::serialize as a host runs it: to_le on the u16 fields, then
\* the struct stored over the head of the buffer
serialize_on(host, s, b) ==
    [i \in 1..Len(b) |->
        CASE i = 1 -> s.request_type
          [] i = 2 -> s.request
          [] i \in {3, 4} -> store_u16(to_le(s.value, host), host)[i - 2]
          [] i \in {5, 6} -> store_u16(to_le(s.index, host), host)[i - 4]
          [] i \in {7, 8} -> store_u16(to_le(s.len, host), host)[i - 6]
          [] OTHER -> b[i]]

\* ControlSetup::deserialize as a host runs it: the struct loaded from the
\* head of the buffer, then from_le on the u16 fields
deserialize_on(host, b) ==
    ControlSetup(b[1], b[2],
                 from_le(load_u16(b[3], b[4], host), host),
                 from_le(load_u16(b[5], b[6], host), host),
                 from_le(load_u16(b[7], b[8], host), host))

is_write(s) == DirBits(s.request_type) = LIBUSB_ENDPOINT_OUT
is_read(s) == DirBits(s.request_type) = LIBUSB_ENDPOINT_IN

\* Transfer::is_endpoint_read
is_endpoint_read(t) == DirBits(t.endpoint) # LIBUSB_ENDPOINT_OUT

\* ------------------------------------------------------------------ state
VARIABLES
    buf,        \* SafeTransfer.buf, a sequence of bytes
    transfer,   \* the libusb_transfer descriptor owned by SafeTransfer.transfer
    is_active,  \* UserData.is_active (AtomicBool)
    chan,       \* number of notifications held by the mpsc channel of the link
    pending,    \* native layer: the transfer is submitted, its callback not yet invoked
    cb,         \* position of the event-loop thread inside the callback
    pc,         \* position of the calling thread
    op,         \* who drives the SafeTransfer: an AsyncDevice operation, or "submit" (used directly)
    result,     \* value returned by the last call that returned one
    interfaces, \* ClaimedInterfaces.0, the 32 bytes of the claim set
    last_call,  \* the last call made on the claim set
    handle_call, \* the last call made on the DeviceHandle, with the native calls it issued
    version,    \* the last call of Version::new: its arguments and what came of it
    running,    \* AsyncContext.running_atomic
    loop_pc,    \* where the event-loop thread of the AsyncContext is
    actx_pc,    \* where the owner of the AsyncContext is
    polls,      \* polls the loop has finished (saturating)
    events,     \* polls that dispatched events (saturating)
    default_count, \* DEFAULT_CONTEXT_COUNT
    live_defaults, \* default Contexts alive
    live_others,   \* Contexts of their own alive
    native_refs,   \* libusb_init(NULL) calls not yet matched by libusb_exit(NULL)
    context_call   \* the last call on Context and whether it called libusb_exit

vars == <<buf, transfer, is_active, chan, pending, cb, pc, op, result, interfaces, last_call,
          handle_call, version, running, loop_pc, actx_pc, polls, events,
          default_count, live_defaults, live_others, native_refs, context_call>>
\* the state of one SafeTransfer and of the native transfer it drives
transfer_vars == <<buf, transfer, is_active, chan, pending, cb, pc, op, result>>
\* the state of the device handle
handle_vars == <<interfaces, last_call, handle_call>>
\* the parts of the library that stand beside the transfer engine
async_vars == <<running, loop_pc, actx_pc, polls, events>>
context_vars == <<default_count, live_defaults, live_others, native_refs, context_call>>
library_vars == <<version, async_vars, context_vars>>

\* device handles a transfer can be submitted on
Devices == {1, 2}
DataLens == 0..MaxData
\* bytes and byte strings a caller writes, and the request it writes them with
DataBytes == {3, 12}
Payloads(n) == [1..n -> DataBytes]
Requests == {12}
\* timeouts handed to set_timeout, in milliseconds
Timeouts == {0, 1000}
\* string-descriptor indexes and language IDs a caller asks for
StringIndexes == {0, 1, 2}
LangIds == {0, 1033}

\* Transfer::new(0): libusb_alloc_transfer hands out a zeroed descriptor
\* (transfer_type 0 = Control, status 0 = Completed)
Transfer_new ==
    [transfer_type |-> "Control", endpoint |-> 0, timeout |-> 0, length |-> 0, flags |-> 0,
     buffer |-> "null", callback |-> "null", user_data |-> "null", dev_handle |-> 0,
     status |-> "Completed", actual_length |-> 0]

Returned(o, r) == [op |-> o, err |-> r.err, len |-> r.len]

\* a call on the claim set: which, on what interface, and whether that
\* interface was claimed when the call was made
Called(o, interface, was) == [op |-> o, interface |-> interface, was_claimed |-> was]
NoCall == Called("new", 0, FALSE)

\* a call on the DeviceHandle: which, on what interface, what it returned and
\* the native calls it made, in order
HandleCalled(o, interface, ret, native) ==
    [op |-> o, interface |-> interface, ret |-> ret, native |-> native]
Native(call, interface) == [call |-> call, interface |-> interface]
\* DeviceHandle::from_libusb: the handle as opened
NoHandleCall == HandleCalled("from_libusb", 0, "Ok", << >>)
\* errors libusb_claim_interface / libusb_release_interface report
ClaimErrors == {"Busy", "NoDevice"}
ReleaseErrors == {"NotFound", "NoDevice"}

\* -------------------------------------------------- SafeTransfer, pure parts
\* SafeTransfer::set_fields
set_fields(t, b) ==
    [t EXCEPT !.buffer = "buf", !.length = Len(b), !.flags = 0,
              !.callback = "system_callback", !.user_data = "UserData"]

\* Transfer::set_device
set_device(t, dev) == [t EXCEPT !.dev_handle = dev]

\* SafeTransfer::ensure_inactive
ensure_inactive(active) == IF active THEN "Busy" ELSE "Ok"

\* check_endpoint with the comparison turned round
check_endpoint_swapped(t, rd) == IF is_endpoint_read(t) = rd THEN "InvalidParam" ELSE "Ok"

\* SafeTransfer::check_endpoint
check_endpoint(t, rd) == IF is_endpoint_read(t) # rd THEN "InvalidParam" ELSE "Ok"

\* SafeTransfer::get_control_setup: is there a setup to read (Some) or not (None)
has_control_setup(b) == Len(b) > SIZE

\* SafeTransfer::calculated_control_data_len (saturating_sub)
calculated_control_data_len(b) == IF Len(b) >= SIZE THEN Len(b) - SIZE ELSE 0

\* SafeTransfer::check_control_setup (try_control_setup: None -> NotFound)
check_control_setup(b, active, rd) ==
    IF ensure_inactive(active) # "Ok" THEN ensure_inactive(active)
    ELSE IF ~has_control_setup(b) THEN "NotFound"
    ELSE IF is_read(deserialize(b)) # rd THEN "InvalidParam"
    ELSE IF deserialize(b).len <= calculated_control_data_len(b) THEN "Ok"
    ELSE "Overflow"

\* SafeTransfer::check_transfer (unimplemented!() panics)
check_transfer(t, b, active, rd) ==
    CASE t.transfer_type = "Control" -> check_control_setup(b, active, rd)
      [] t.transfer_type \in {"Bulk", "Interrupt"} -> check_endpoint(t, rd)
      [] OTHER -> "Panic"

\* SafeTransfer::set_control_setup
set_control_setup_ok(b) == Len(b) > SIZE

\* a try_actual_length that keeps the partial count of a timed-out transfer
try_actual_length_partial(t) ==
    CASE t.status = "Completed" -> Ok(t.actual_length)
      [] t.status \in {"Error", "Cancelled"} -> Err("Io")
      [] t.status = "TimedOut" -> IF t.actual_length > 0 THEN Ok(t.actual_length) ELSE Err("Timeout")
      [] t.status = "Stall" -> Err("Pipe")
      [] t.status = "NoDevice" -> Err("NoDevice")
      [] t.status = "Overflow" -> Err("Overflow")
      [] OTHER -> Err("Other")

\* Transfer::try_actual_length
try_actual_length(t) ==
    CASE t.status = "Completed" -> Ok(t.actual_length)
      [] t.status \in {"Error", "Cancelled"} -> Err("Io")
      [] t.status = "TimedOut" -> Err("Timeout")
      [] t.status = "Stall" -> Err("Pipe")
      [] t.status = "NoDevice" -> Err("NoDevice")
      [] t.status = "Overflow" -> Err("Overflow")
      [] OTHER -> Err("Other")

\* a try_send that never posts
try_send_lost(c) == c

\* mpsc Sender::try_send on the bounded channel: dropped when the slot is taken
try_send(c) == IF c < ChannelCapacity THEN c + 1 ELSE c

\* ------------------------------------------------------ ClaimedInterfaces
\* bit k of a byte
Bit(byte, k) == (byte \div (2 ^ k)) % 2

\* ClaimedInterfaces::new(): [0_u8; INTERFACES_BYTE_LEN]
ClaimedInterfaces_new == [j \in 0..(INTERFACES_BYTE_LEN - 1) |-> 0]

byte_index(interface) == interface \div 8
\* a bit index that folds the upper half of the byte onto the lower
bit_index_folded(interface) == interface % 4

bit_index(interface) == interface % 8

\* a claim that flips the bit instead of setting it
ClaimedInterfaces_claim_flip(c, interface) ==
    [c EXCEPT ![byte_index(interface)] =
        IF Bit(@, bit_index(interface)) = 1
        THEN @ - 2 ^ bit_index(interface)
        ELSE @ + 2 ^ bit_index(interface)]

\* ClaimedInterfaces::claim: self.0[byte_index] |= 1 << bit_index
ClaimedInterfaces_claim(c, interface) ==
    [c EXCEPT ![byte_index(interface)] =
        IF Bit(@, bit_index(interface)) = 1 THEN @ ELSE @ + 2 ^ bit_index(interface)]

\* ClaimedInterfaces::is_claimed: self.0[byte_index] & (1 << bit_index) != 0
ClaimedInterfaces_is_claimed(c, interface) ==
    Bit(c[byte_index(interface)], bit_index(interface)) # 0

\* a release that clears the whole byte of the interface
ClaimedInterfaces_release_byte(c, interface) == [c EXCEPT ![byte_index(interface)] = 0]

\* ClaimedInterfaces::release: self.0[byte_index] &= !(1 << bit_index)
ClaimedInterfaces_release(c, interface) ==
    [c EXCEPT ![byte_index(interface)] =
        IF Bit(@, bit_index(interface)) = 1 THEN @ - 2 ^ bit_index(interface) ELSE @]

\* an any_claimed that looks at the first byte alone
any_claimed_first(c) == c[0] # 0

any_claimed(c) == \E j \in DOMAIN c : c[j] # 0

none_claimed(c) == \A j \in DOMAIN c : c[j] = 0

\* <ClaimedInterfaces as Iterator>::next, the for loop from byte j on with the
\* local `index`: a zero byte adds 8 to index (or ends the loop once index
\* has reached 0xFF - 8); in a byte that is not zero the highest i in 0..8
\* with *b > (1 << i) is taken, 1 << i subtracted and Some(index + i)
\* returned; a byte with no such i is passed over with index as it is
RECURSIVE next_from(_, _, _)
next_from(c, j, index) ==
    IF j >= INTERFACES_BYTE_LEN
    THEN [ret |-> "None", value |-> 0, set |-> c]
    ELSE IF c[j] = 0
    THEN IF index >= INTERFACES_MAX - 8
         THEN [ret |-> "None", value |-> 0, set |-> c]
         ELSE next_from(c, j + 1, index + 8)
    ELSE IF \E i \in 0..7 : c[j] > 2 ^ i
    THEN LET i == CHOOSE i \in 0..7 : c[j] > 2 ^ i /\ \A k \in 0..7 : c[j] > 2 ^ k => k <= i
         IN [ret |-> "Some", value |-> index + i, set |-> [c EXCEPT ![j] = @ - 2 ^ i]]
    ELSE next_from(c, j + 1, index)

ClaimedInterfaces_next(c) == next_from(c, 0, 0)

\* while let Some(i) = self.interfaces.next() { .. }: the numbers yielded,
\* and the claim set left when next returns None
RECURSIVE Drained(_)
Drained(c) ==
    IF ClaimedInterfaces_next(c).ret = "None" THEN << >>
    ELSE << ClaimedInterfaces_next(c).value >> \o Drained(ClaimedInterfaces_next(c).set)

RECURSIVE DrainedSet(_)
DrainedSet(c) ==
    IF ClaimedInterfaces_next(c).ret = "None" THEN c
    ELSE DrainedSet(ClaimedInterfaces_next(c).set)

\* --------------------------------------------------- Version, pure parts
\* bit k of x, and the bitwise or of two u16
Or16(a, b) ==
    LET bit(x, k) == (x \div (2 ^ k)) % 2
        Sum[k \in 0..16] ==
            IF k = 16 THEN 0
            ELSE (IF bit(a, k) = 1 \/ bit(b, k) = 1 THEN 2 ^ k ELSE 0) + Sum[k + 1]
    IN Sum[0]

\* Version::new: the assert, then
\* Version(u16::from(major) << 8 | u16::from(minor << 4) | u16::from(sub_minor))
VersionMade(major, minor, sub_minor) ==
    IF minor <= 15 /\ sub_minor < 15
    THEN [ret |-> "Ok",
          value |-> Or16(Or16((major * 256) % 65536, (minor * 16) % 256), sub_minor)]
    ELSE [ret |-> "Panic", value |-> 0]

\* Version::major / minor / sub_minor
Version_major(v) == (v - (v % 256)) \div 256
Version_minor(v) == ((v % 256) - (v % 16)) \div 16
Version_sub_minor(v) == v % 16

\* a call on Context: which, what it returned, and whether libusb_exit was called
ContextCalled(o, ret, exit) == [op |-> o, ret |-> ret, exit |-> exit]
\* errors of libusb_init
InitErrors == {"NoMem", "Other"}
\* AtomicUsize::fetch_sub(1): the new value, wrapping
fetch_sub(count) == IF count = 0 THEN USIZE_MAX ELSE count - 1

NoVersion == [major |-> 0, minor |-> 0, sub_minor |-> 0, ret |-> "None", value |-> 0]
InitLibrary ==
    /\ version = NoVersion
    /\ running = FALSE
    /\ loop_pc = "none"
    /\ actx_pc = "none"
    /\ polls = 0
    /\ events = 0
    /\ default_count = 0
    /\ live_defaults = 0
    /\ live_others = 0
    /\ native_refs = 0
    /\ context_call = ContextCalled("none", "Ok", FALSE)

\* ----------------------------------------------------------- construction
\* buffers a caller hands to from_buf / from_transfer_buf: zeroed, or holding
\* a serialized setup
Setups ==
    {ControlSetup(rt, 0, 0, 0, n) : rt \in RequestTypes, n \in 0..(MaxData + 1)}
    \cup {ControlSetup(LIBUSB_ENDPOINT_IN, LIBUSB_REQUEST_GET_DESCRIPTOR,
                       LIBUSB_DT_STRING * 256 + 2, 1033, 258)}
Buffers ==
    {Zeros(n) : n \in BufLens}
    \cup {serialize(s, Zeros(n)) : s \in Setups, n \in {m \in BufLens : m >= SIZE}}

\* descriptors a caller hands to from_transfer_buf: Transfer::new(0), with
\* Transfer::set_type and Transfer::set_endpoint applied
Transfers ==
    {[Transfer_new EXCEPT !.transfer_type = ty, !.endpoint = e] :
        ty \in TransferTypes, e \in Endpoints}

\* the buffers and descriptors the engine is driven with: one buffer of
\* full size per request direction and a short one with no room for a
\* header, one descriptor per transfer kind
EngineBuffers ==
    {Zeros(SIZE + MaxData), Zeros(MaxData)}
    \cup {serialize(ControlSetup(rt, 0, 0, 0, MaxData), Zeros(SIZE + MaxData)) : rt \in RequestTypes}
EngineTransfers ==
    {[Transfer_new EXCEPT !.transfer_type = ty,
                          !.endpoint = IF ty = "Bulk" THEN 129 ELSE IF ty = "Interrupt" THEN 1 ELSE 0] :
        ty \in TransferTypes}

\* SafeTransfer::from_transfer_buf(transfer, buf) -> from_parts, with
\* SafeTransferAsyncLink::new()
Init ==
    /\ buf \in EngineBuffers
    /\ transfer \in EngineTransfers
    /\ is_active = FALSE
    /\ chan = 0
    /\ pending = FALSE
    /\ cb = "idle"
    /\ pc = "idle"
    /\ op = "submit"
    /\ result = Returned("submit", NoResult)
    /\ interfaces = ClaimedInterfaces_new
    /\ last_call = NoCall
    /\ handle_call = NoHandleCall
    /\ InitLibrary

\* where the caller continues after a submit call ends: an AsyncDevice
\* operation returns and its local SafeTransfer goes out of scope
AfterReturn(o) == IF o = "submit" THEN "idle" ELSE "drop"

\* ------------------------------------------- SafeTransfer used directly
\* SafeTransfer::set_control_setup
set_control_setup(s) ==
    /\ pc = "idle"
    /\ IF set_control_setup_ok(buf)
       THEN /\ \E host \in Hosts : buf' = serialize_on(host, s, buf)
            /\ result' = Returned("set_control_setup", Ok(0))
       ELSE /\ buf' = buf
            /\ result' = Returned("set_control_setup", Err("Overflow"))
    /\ UNCHANGED <<transfer, is_active, chan, pending, cb, pc, op>>
    /\ UNCHANGED <<handle_vars, library_vars>>

\* SafeTransfer::set_type, by the holder of the SafeTransfer (no check)
set_type(transfer_type) ==
    /\ pc = "idle"
    /\ transfer' = [transfer EXCEPT !.transfer_type = transfer_type]
    /\ result' = Returned("set_type", Ok(0))
    /\ UNCHANGED <<buf, is_active, chan, pending, cb, pc, op>>
    /\ UNCHANGED <<handle_vars, library_vars>>

\* SafeTransfer::set_endpoint
set_endpoint(endpoint) ==
    /\ pc = "idle"
    /\ transfer' = [transfer EXCEPT !.endpoint = endpoint]
    /\ result' = Returned("set_endpoint", Ok(0))
    /\ UNCHANGED <<buf, is_active, chan, pending, cb, pc, op>>
    /\ UNCHANGED <<handle_vars, library_vars>>

\* SafeTransfer::set_timeout (milliseconds)
set_timeout(timeout) ==
    /\ pc = "idle"
    /\ transfer' = [transfer EXCEPT !.timeout = timeout]
    /\ result' = Returned("set_timeout", Ok(0))
    /\ UNCHANGED <<buf, is_active, chan, pending, cb, pc, op>>
    /\ UNCHANGED <<handle_vars, library_vars>>

\* SafeTransfer::submit up to the end of check_transfer, on buffer b and
\* descriptor t with the bridge's flag reading active:
\* set_fields, set_device, then submit_asynchronously's check_transfer
submit_checked(o, b, t, active, dev, rd) ==
    /\ buf' = b
    /\ transfer' = set_device(set_fields(t, b), dev)
    /\ op' = o
    /\ LET r == check_transfer(set_device(set_fields(t, b), dev), b, active, rd) IN
       IF r = "Ok"
       THEN /\ pc' = "set_active"
            /\ result' = Returned(o, NoResult)
       ELSE /\ pc' = AfterReturn(o)
            /\ result' = Returned(o, Err(r))

\* SafeTransfer::submit_read / submit_write
submit(dev, rd) ==
    /\ pc = "idle"
    /\ submit_checked("submit", buf, transfer, is_active, dev, rd)
    /\ UNCHANGED <<is_active, chan, pending, cb>>
    /\ UNCHANGED <<handle_vars, library_vars>>

\* submit_asynchronously: self.set_active(true)
set_active_true ==
    /\ pc = "set_active"
    /\ is_active' = TRUE
    /\ pc' = "native"
    /\ UNCHANGED <<buf, transfer, chan, pending, cb, op, result>>
    /\ UNCHANGED <<handle_vars, library_vars>>

\* submit_asynchronously: Transfer::submit -> libusb_submit_transfer.
\* A transfer that is already in flight is refused with LIBUSB_ERROR_BUSY;
\* otherwise the native layer takes it or refuses it.
native_submit ==
    /\ pc = "native"
    /\ IF pending
       THEN /\ result' = Returned(op, Err("Busy"))
            /\ pc' = "submit_failed"
            /\ UNCHANGED pending
       ELSE \/ /\ pending' = TRUE
               /\ pc' = "wait"
               /\ UNCHANGED result
            \/ \E e \in SubmitErrors :
               /\ result' = Returned(op, Err(e))
               /\ pc' = "submit_failed"
               /\ UNCHANGED pending
    /\ UNCHANGED <<buf, transfer, is_active, chan, cb, op>>
    /\ UNCHANGED <<handle_vars, library_vars>>

\* submit_asynchronously, Err(e) arm: self.set_active(false); Err(e)
submit_failed ==
    /\ pc = "submit_failed"
    /\ is_active' = FALSE
    /\ pc' = AfterReturn(op)
    /\ UNCHANGED <<buf, transfer, chan, pending, cb, op, result>>
    /\ UNCHANGED <<handle_vars, library_vars>>

\* wait_for_inactive: if self.is_active() { wait_for_receiver }
wait_for_inactive ==
    /\ pc = "wait"
    /\ pc' = IF is_active THEN "recv" ELSE "harvest"
    /\ UNCHANGED <<buf, transfer, is_active, chan, pending, cb, op, result>>
    /\ UNCHANGED <<handle_vars, library_vars>>

\* wait_for_receiver: receiver.recv().await resumes with a notification
wait_for_receiver ==
    /\ pc = "recv"
    /\ chan > 0
    /\ chan' = chan - 1
    /\ pc' = "harvest"
    /\ UNCHANGED <<buf, transfer, is_active, pending, cb, op, result>>
    /\ UNCHANGED <<handle_vars, library_vars>>

\* the submit future is dropped while suspended in recv().await; the
\* SafeTransfer of an AsyncDevice operation is a local of that future
abandon ==
    /\ pc = "recv"
    /\ pc' = AfterReturn(op)
    /\ UNCHANGED <<buf, transfer, is_active, chan, pending, cb, op, result>>
    /\ UNCHANGED <<handle_vars, library_vars>>

\* what the operation o makes of the outcome of its submit:
\* get_string_descriptor turns the bytes received into a String
\* (String::from_utf8(buf).map_err(|_| Error::Other)), the others return it
Harvested(o, t) ==
    IF o = "get_string_descriptor" /\ try_actual_length(t).err = "Ok"
    THEN {try_actual_length(t), Err("Other")}
    ELSE {try_actual_length(t)}

\* SingleTransferDevice::control_read copies the bytes received out of
\* control_data_ref()[..len], the part of the buffer after the header: a len
\* beyond it is a slice out of range
Copied(o, b, r) ==
    IF o = "SingleTransferDevice_control_read" /\ r.err = "Ok"
       /\ r.len > (IF Len(b) >= SIZE THEN Len(b) - SIZE ELSE 0)
    THEN Err("Panic")
    ELSE r

\* submit: transfer.try_actual_length().map(|l| l as usize)
harvest ==
    /\ pc = "harvest"
    /\ \E r \in Harvested(op, transfer) : result' = Returned(op, Copied(op, buf, r))
    /\ pc' = AfterReturn(op)
    /\ UNCHANGED <<buf, transfer, is_active, chan, pending, cb, op>>
    /\ UNCHANGED <<handle_vars, library_vars>>

\* SafeTransfer::into_parts (into_buf, into_transfer): wait_for_inactive,
\* the flag test; an inactive SafeTransfer goes on to into_all_parts, which
\* hands out buf, transfer and link and forgets self (no drop)
into_parts ==
    /\ pc = "idle"
    /\ pc' = IF is_active THEN "parts_recv" ELSE "parts"
    /\ op' = "into_parts"
    /\ result' = Returned("into_parts", NoResult)
    /\ UNCHANGED <<buf, transfer, is_active, chan, pending, cb>>
    /\ UNCHANGED <<handle_vars, library_vars>>

\* into_parts: wait_for_receiver resumes with a notification, then into_all_parts
into_parts_wait_for_receiver ==
    /\ pc = "parts_recv"
    /\ chan > 0
    /\ chan' = chan - 1
    /\ pc' = "parts"
    /\ UNCHANGED <<buf, transfer, is_active, pending, cb, op, result>>
    /\ UNCHANGED <<handle_vars, library_vars>>

\* the future of into_parts is dropped while it waits: it owns self, which
\* is dropped with it
into_parts_abandon ==
    /\ pc = "parts_recv"
    /\ pc' = "drop"
    /\ UNCHANGED <<buf, transfer, is_active, chan, pending, cb, op, result>>
    /\ UNCHANGED <<handle_vars, library_vars>>

\* ------------------------------------------------- the event-loop thread
\* bytes the driver can report for the descriptor as submitted
PayloadLen(t) ==
    IF t.transfer_type = "Control"
    THEN (IF t.length >= SIZE THEN t.length - SIZE ELSE 0)
    ELSE t.length
\* the driver moves nothing or everything; only a completed transfer counts bytes
ActualLens(t, st) == IF st = "Completed" THEN {0, PayloadLen(t)} ELSE {0}

\* a callback that also takes the descriptor apart
system_callback_frees(st, n) ==
    /\ pending
    /\ cb = "idle"
    /\ pending' = FALSE
    /\ transfer' = [transfer EXCEPT !.status = st, !.actual_length = n,
                                    !.buffer = "null", !.user_data = "null"]
    /\ is_active' = FALSE
    /\ cb' = "try_send"
    /\ UNCHANGED <<buf, chan, pc, op, result>>
    /\ UNCHANGED <<handle_vars, library_vars>>

\* The native layer completes the transfer (status, actual_length) and calls
\* system_callback -> callback -> UserData::send_completion up to
\* is_active.store(false)
system_callback(st, n) ==
    /\ pending
    /\ cb = "idle"
    /\ pending' = FALSE
    /\ transfer' = [transfer EXCEPT !.status = st, !.actual_length = n]
    /\ IF transfer.user_data = "null"
       THEN UNCHANGED <<is_active, cb>>
       ELSE /\ is_active' = FALSE
            /\ cb' = "try_send"
    /\ UNCHANGED <<buf, chan, pc, op, result>>
    /\ UNCHANGED <<handle_vars, library_vars>>

\* UserData::send_completion: self.sender.try_send(()).ok()
send_completion ==
    /\ cb = "try_send"
    /\ chan' = try_send(chan)
    /\ cb' = "idle"
    /\ UNCHANGED <<buf, transfer, is_active, pending, pc, op, result>>
    /\ UNCHANGED <<handle_vars, library_vars>>

\* ------------------------------------------------------------------- drop
\* Drop::drop -> sync_wait_for_cancel -> cancel_asynchronously: is_active()?
\* (an inactive transfer is released at once)
cancel_asynchronously ==
    /\ pc \in {"idle", "drop"}
    /\ pc' = IF is_active THEN "cancel" ELSE "dropped"
    /\ result' = IF pc = "idle" THEN Returned("submit", NoResult) ELSE result
    /\ UNCHANGED <<buf, transfer, is_active, chan, pending, cb, op>>
    /\ UNCHANGED <<handle_vars, library_vars>>

\* a cancel that completes the transfer by itself: flag cleared, nothing awaited
native_cancel_completes ==
    /\ pc = "cancel"
    /\ pending
    /\ is_active' = FALSE
    /\ pc' = "dropped"
    /\ UNCHANGED <<buf, transfer, chan, pending, cb, op, result>>
    /\ UNCHANGED <<handle_vars, library_vars>>

\* cancel_asynchronously: Transfer::cancel -> libusb_cancel_transfer.
\* A transfer not in flight is refused (LIBUSB_ERROR_NOT_FOUND); the error
\* reaches expect() in drop, which panics: the fields are released while
\* unwinding (panic = "unwind"), or the process aborts (panic = "abort").
native_cancel ==
    /\ pc = "cancel"
    /\ \/ pending /\ pc' = "drop_wait"
       \/ pc' \in {"unwound", "aborted"}
    /\ UNCHANGED <<buf, transfer, is_active, chan, pending, cb, op, result>>
    /\ UNCHANGED <<handle_vars, library_vars>>

\* sync_wait_for_cancel: block_on_future(wait_for_inactive), the flag test
drop_wait_for_inactive ==
    /\ pc = "drop_wait"
    /\ pc' = IF is_active THEN "drop_recv" ELSE "dropped"
    /\ UNCHANGED <<buf, transfer, is_active, chan, pending, cb, op, result>>
    /\ UNCHANGED <<handle_vars, library_vars>>

\* sync_wait_for_cancel: block_on_future(wait_for_receiver)
drop_wait_for_receiver ==
    /\ pc = "drop_recv"
    /\ chan > 0
    /\ chan' = chan - 1
    /\ pc' = "dropped"
    /\ UNCHANGED <<buf, transfer, is_active, pending, cb, op, result>>
    /\ UNCHANGED <<handle_vars, library_vars>>

\* --------------------------------------------------------- reconstruction
\* SafeTransfer::from_transfer_buf(t, b): a new descriptor and a new link
from_transfer_buf(t, b) ==
    /\ pc = "dropped"
    /\ buf' = b
    /\ transfer' = t
    /\ is_active' = FALSE
    /\ chan' = 0
    /\ pending' = FALSE
    /\ cb' = "idle"
    /\ pc' = "idle"
    /\ op' = "submit"
    /\ result' = Returned("submit", NoResult)
    /\ UNCHANGED <<handle_vars, library_vars>>

\* SafeTransfer::from_parts over a descriptor and a link that outlive it
\* (InactiveTransfer::safe_transfer)
from_parts(b) ==
    /\ pc = "dropped"
    /\ buf' = b
    /\ pc' = "idle"
    /\ op' = "submit"
    /\ result' = Returned("submit", NoResult)
    /\ UNCHANGED <<transfer, is_active, chan, pending, cb>>
    /\ UNCHANGED <<handle_vars, library_vars>>

\* ------------------------------------------------------------ AsyncDevice
\* AsyncDevice::control_read / control_write up to the end of check_transfer,
\* on the buffer b the operation has allocated and filled:
\* set_control_setup(s)?, submit_write
control_type(o, s, b, dev) ==
    /\ pc = "dropped"
    /\ is_active' = FALSE
    /\ chan' = 0
    /\ pending' = FALSE
    /\ cb' = "idle"
    /\ IF set_control_setup_ok(b)
       THEN submit_checked(o, serialize(s, b), Transfer_new, FALSE, dev, FALSE)
       ELSE /\ buf' = b
            /\ transfer' = Transfer_new
            /\ op' = o
            /\ pc' = AfterReturn(o)
            /\ result' = Returned(o, Err("Overflow"))
    /\ UNCHANGED <<handle_vars, library_vars>>

\* AsyncDevice::control_read into n bytes: from_buf(vec![0; n + SIZE])
control_read(request_type, request, value, index, n, dev) ==
    control_type("control_read", ControlSetup(request_type, request, value, index, n),
                 Zeros(n + SIZE), dev)

\* AsyncDevice::control_write: from_buf(vec![0; data.len() + SIZE]),
\* control_data_mut()[..data.len()].copy_from_slice(data)
control_write(request_type, request, value, index, data, dev) ==
    control_type("control_write", ControlSetup(request_type, request, value, index, Len(data)),
                 Zeros(SIZE) \o data, dev)

\* AsyncDevice::get_string_descriptor_bytes: if desc_index == 0 { return Err(InvalidParam) }
string_index_check(desc_index) == IF desc_index = 0 THEN "InvalidParam" ELSE "Ok"

\* AsyncDevice::get_string_descriptor_bytes into n bytes, for the operation o
\* that calls it: the index test, then control_read(LIBUSB_ENDPOINT_IN,
\* GET_DESCRIPTOR, STRING << 8 | desc_index, langid, data)
string_descriptor_read(o, desc_index, langid, n, dev) ==
    IF string_index_check(desc_index) # "Ok"
    THEN /\ pc = "dropped"
         /\ op' = o
         /\ result' = Returned(o, Err(string_index_check(desc_index)))
         /\ UNCHANGED <<buf, transfer, is_active, chan, pending, cb, pc>>
         /\ UNCHANGED <<handle_vars, library_vars>>
    ELSE control_type(o, ControlSetup(LIBUSB_ENDPOINT_IN, LIBUSB_REQUEST_GET_DESCRIPTOR,
                                      LIBUSB_DT_STRING * 256 + desc_index, langid, n),
                      Zeros(n + SIZE), dev)

get_string_descriptor_bytes(desc_index, langid, n, dev) ==
    string_descriptor_read("get_string_descriptor_bytes", desc_index, langid, n, dev)

\* AsyncDevice::get_string_descriptor: get_string_descriptor_bytes into 255 bytes
get_string_descriptor(desc_index, langid, dev) ==
    string_descriptor_read("get_string_descriptor", desc_index, langid, StringBufLen, dev)

\* AsyncDevice::get_string_descriptor_ascii: its first statement is
\* get_string_descriptor_bytes(0, 0, &mut langid_bytes).await?, whose index
\* test ends the call; the statements after it are never reached
get_string_descriptor_ascii(desc_index, dev) ==
    string_descriptor_read("get_string_descriptor_ascii", 0, 0, 2, dev)

\* AsyncDevice::bulk_type_write / bulk_type_read up to the end of check_transfer:
\* from_buf(data), set_type, set_endpoint, submit_write / submit_read
bulk_type(o, bt, endpoint, n, dev, rd) ==
    /\ pc = "dropped"
    /\ is_active' = FALSE
    /\ chan' = 0
    /\ pending' = FALSE
    /\ cb' = "idle"
    /\ submit_checked(o, Zeros(n),
                      [Transfer_new EXCEPT !.transfer_type = bt, !.endpoint = endpoint],
                      FALSE, dev, rd)
    /\ UNCHANGED <<handle_vars, library_vars>>

bulk_type_write(bt, endpoint, n, dev) == bulk_type("bulk_type_write", bt, endpoint, n, dev, FALSE)
bulk_type_read(bt, endpoint, n, dev) == bulk_type("bulk_type_read", bt, endpoint, n, dev, TRUE)

\* --------------------------------------------------- SingleTransferDevice
\* InactiveTransfer::control_transfer: buf.resize(data.len() + SIZE, 0),
\* setup.serialize(buf), buf[SIZE..].copy_from_slice(data)
InactiveTransfer_control_transfer(data, s) == serialize(s, Zeros(SIZE) \o data)

\* a SingleTransferDevice operation: SafeTransfer::from_parts over the
\* descriptor and the link the device keeps, then submit on buffer b with
\* the descriptor as t
SingleTransferDevice_submit(o, b, t, dev, rd) ==
    /\ pc = "dropped"
    /\ submit_checked(o, b, t, is_active, dev, rd)
    /\ UNCHANGED <<is_active, chan, pending, cb>>
    /\ UNCHANGED <<handle_vars, library_vars>>

\* SingleTransferDevice::control_read into n bytes: control_transfer(&[], setup), submit_write
SingleTransferDevice_control_read(request_type, request, value, index, n, dev) ==
    SingleTransferDevice_submit("SingleTransferDevice_control_read",
        InactiveTransfer_control_transfer(<< >>, ControlSetup(request_type, request, value, index, n)),
        transfer, dev, FALSE)

\* SingleTransferDevice::control_write: control_transfer(data, setup), submit_write
SingleTransferDevice_control_write(request_type, request, value, index, data, dev) ==
    SingleTransferDevice_submit("SingleTransferDevice_control_write",
        InactiveTransfer_control_transfer(data, ControlSetup(request_type, request, value, index, Len(data))),
        transfer, dev, FALSE)

\* SingleTransferDevice::bulk_type_write / bulk_type_read on n bytes:
\* safe_transfer(data), set_type, set_endpoint, submit
SingleTransferDevice_bulk_type(o, bt, endpoint, n, dev, rd) ==
    SingleTransferDevice_submit(o, Zeros(n),
        [transfer EXCEPT !.transfer_type = bt, !.endpoint = endpoint], dev, rd)

SingleTransferDevice_bulk_type_write(bt, endpoint, n, dev) ==
    SingleTransferDevice_bulk_type("SingleTransferDevice_bulk_type_write", bt, endpoint, n, dev, FALSE)
SingleTransferDevice_bulk_type_read(bt, endpoint, n, dev) ==
    SingleTransferDevice_bulk_type("SingleTransferDevice_bulk_type_read", bt, endpoint, n, dev, TRUE)

\* ------------------------------------------------------ ClaimedInterfaces
\* ClaimedInterfaces::claim
claim(interface) ==
    /\ interfaces' = ClaimedInterfaces_claim(interfaces, interface)
    /\ last_call' = Called("claim", interface, ClaimedInterfaces_is_claimed(interfaces, interface))
    /\ UNCHANGED <<transfer_vars, handle_call, library_vars>>

\* ClaimedInterfaces::release
release(interface) ==
    /\ interfaces' = ClaimedInterfaces_release(interfaces, interface)
    /\ last_call' = Called("release", interface, ClaimedInterfaces_is_claimed(interfaces, interface))
    /\ UNCHANGED <<transfer_vars, handle_call, library_vars>>

\* <ClaimedInterfaces as Iterator>::next; last_call holds what it returned
next ==
    /\ interfaces' = ClaimedInterfaces_next(interfaces).set
    /\ last_call' = Called(IF ClaimedInterfaces_next(interfaces).ret = "Some" THEN "next" ELSE "next_none",
                           ClaimedInterfaces_next(interfaces).value,
                           ClaimedInterfaces_is_claimed(interfaces, ClaimedInterfaces_next(interfaces).value))
    /\ UNCHANGED <<transfer_vars, handle_call, library_vars>>

\* ---------------------------------------------------------------- Version
Version_new(major, minor, sub_minor) ==
    /\ version' = [major |-> major, minor |-> minor, sub_minor |-> sub_minor,
                   ret |-> VersionMade(major, minor, sub_minor).ret,
                   value |-> VersionMade(major, minor, sub_minor).value]
    /\ UNCHANGED <<transfer_vars, handle_vars, async_vars, context_vars>>

\* ----------------------------------------------------------- AsyncContext
\* AsyncContext::with_arc: the flag starts true, the thread is spawned
with_arc ==
    /\ actx_pc = "none"
    /\ running' = TRUE
    /\ loop_pc' = "test"
    /\ actx_pc' = "alive"
    /\ UNCHANGED <<polls, events>>
    /\ UNCHANGED <<transfer_vars, handle_vars, version, context_vars>>

\* the job: while is_running.load(Ordering::Relaxed)
loop_test ==
    /\ loop_pc = "test"
    /\ loop_pc' = IF running THEN "poll" ELSE "ended"
    /\ UNCHANGED <<running, actx_pc, polls, events>>
    /\ UNCHANGED <<transfer_vars, handle_vars, version, context_vars>>

\* the job: handle_events_timeout(1 s).expect(..) returns within the
\* timeout, with or without events dispatched, or with an error, on which
\* expect panics and the thread ends
loop_poll ==
    /\ loop_pc = "poll"
    /\ \/ /\ loop_pc' = "test"
          /\ polls' = IF polls < MaxPolls THEN polls + 1 ELSE polls
          /\ \/ events' = (IF events < MaxEvents THEN events + 1 ELSE events)
             \/ events' = events
       \/ /\ loop_pc' = "panicked"
          /\ UNCHANGED <<polls, events>>
    /\ UNCHANGED <<running, actx_pc>>
    /\ UNCHANGED <<transfer_vars, handle_vars, version, context_vars>>

\* Drop for AsyncContext: running_atomic.store(false, SeqCst)
AsyncContext_drop ==
    /\ actx_pc = "alive"
    /\ running' = FALSE
    /\ actx_pc' = "join"
    /\ UNCHANGED <<loop_pc, polls, events>>
    /\ UNCHANGED <<transfer_vars, handle_vars, version, context_vars>>

\* Drop for AsyncContext: handle.join().expect("async context panicked")
\* returns when the thread has ended; a thread that panicked makes it panic
AsyncContext_drop_join ==
    /\ actx_pc = "join"
    /\ loop_pc \in {"ended", "panicked"}
    /\ actx_pc' = IF loop_pc = "ended" THEN "dropped" ELSE "drop_panicked"
    /\ UNCHANGED <<running, loop_pc, polls, events>>
    /\ UNCHANGED <<transfer_vars, handle_vars, version, context_vars>>

\* ---------------------------------------------------------------- Context
\* Context::default: libusb_init(NULL), then DEFAULT_CONTEXT_COUNT.fetch_add(1)
Context_default ==
    /\ native_refs < MaxInits
    /\ \/ /\ native_refs' = native_refs + 1
          /\ default_count' = default_count + 1
          /\ live_defaults' = live_defaults + 1
          /\ context_call' = ContextCalled("default", "Ok", FALSE)
       \/ \E e \in InitErrors :
          /\ context_call' = ContextCalled("default", e, FALSE)
          /\ UNCHANGED <<native_refs, default_count, live_defaults>>
    /\ UNCHANGED live_others
    /\ UNCHANGED <<transfer_vars, handle_vars, version, async_vars>>

\* Context::new: libusb_init(&mut context)
Context_new ==
    /\ live_others < MaxOthers
    /\ \/ /\ live_others' = live_others + 1
          /\ context_call' = ContextCalled("new", "Ok", FALSE)
       \/ \E e \in InitErrors :
          /\ context_call' = ContextCalled("new", e, FALSE)
          /\ UNCHANGED live_others
    /\ UNCHANGED <<native_refs, default_count, live_defaults>>
    /\ UNCHANGED <<transfer_vars, handle_vars, version, async_vars>>

\* Drop for Context: if self.is_default() && COUNT.fetch_sub(1) != 0 { return }
\* libusb_exit(self.0)   (fetch_sub returns the value before the subtraction)
Context_drop(is_default) ==
    /\ IF is_default
       THEN /\ live_defaults > 0
            /\ live_defaults' = live_defaults - 1
            /\ default_count' = fetch_sub(default_count)
            /\ IF default_count # 0
               THEN /\ context_call' = ContextCalled("drop_default", "Ok", FALSE)
                    /\ UNCHANGED native_refs
               ELSE /\ context_call' = ContextCalled("drop_default", "Ok", TRUE)
                    /\ native_refs' = IF native_refs > 0 THEN native_refs - 1 ELSE 0
            /\ UNCHANGED live_others
       ELSE /\ live_others > 0
            /\ live_others' = live_others - 1
            /\ context_call' = ContextCalled("drop", "Ok", TRUE)
            /\ UNCHANGED <<native_refs, default_count, live_defaults>>
    /\ UNCHANGED <<transfer_vars, handle_vars, version, async_vars>>

\* ----------------------------------------------------------- DeviceHandle
\* claim_interface: if self.interfaces.is_claimed(interface) { return Ok(()) }
claim_interface_never_early(c, interface) == FALSE
claim_interface_returns_early(c, interface) == ClaimedInterfaces_is_claimed(c, interface)

\* DeviceHandle::claim_interface
claim_interface(interface) ==
    /\ handle_call.op # "drop"
    /\ IF claim_interface_returns_early(interfaces, interface)
       THEN /\ handle_call' = HandleCalled("claim_interface", interface, "Ok", << >>)
            /\ UNCHANGED <<interfaces, last_call>>
       ELSE \/ /\ handle_call' = HandleCalled("claim_interface", interface, "Ok",
                                               << Native("libusb_claim_interface", interface) >>)
               /\ interfaces' = ClaimedInterfaces_claim(interfaces, interface)
               /\ last_call' = Called("claim", interface, FALSE)
            \/ \E e \in ClaimErrors :
               /\ handle_call' = HandleCalled("claim_interface", interface, e,
                                               << Native("libusb_claim_interface", interface) >>)
               /\ UNCHANGED <<interfaces, last_call>>
    /\ UNCHANGED <<transfer_vars, library_vars>>

\* a release_interface that forgets the interface whatever the native call says
release_interface_forgets(interface) ==
    /\ handle_call.op # "drop"
    /\ ClaimedInterfaces_is_claimed(interfaces, interface)
    /\ \E e \in ReleaseErrors \cup {"Ok"} :
          handle_call' = HandleCalled("release_interface", interface, e,
                                      << Native("libusb_release_interface", interface) >>)
    /\ interfaces' = ClaimedInterfaces_release(interfaces, interface)
    /\ last_call' = Called("release", interface, TRUE)
    /\ UNCHANGED <<transfer_vars, library_vars>>

\* DeviceHandle::release_interface
release_interface(interface) ==
    /\ handle_call.op # "drop"
    /\ IF ~ClaimedInterfaces_is_claimed(interfaces, interface)
       THEN /\ handle_call' = HandleCalled("release_interface", interface, "Ok", << >>)
            /\ UNCHANGED <<interfaces, last_call>>
       ELSE \/ /\ handle_call' = HandleCalled("release_interface", interface, "Ok",
                                               << Native("libusb_release_interface", interface) >>)
               /\ interfaces' = ClaimedInterfaces_release(interfaces, interface)
               /\ last_call' = Called("release", interface, TRUE)
            \/ \E e \in ReleaseErrors :
               /\ handle_call' = HandleCalled("release_interface", interface, e,
                                               << Native("libusb_release_interface", interface) >>)
               /\ UNCHANGED <<interfaces, last_call>>
    /\ UNCHANGED <<transfer_vars, library_vars>>

\* Drop for DeviceHandle (also DeviceHandle::close): libusb_release_interface
\* for every number the drain yields, then libusb_close
DeviceHandle_drop ==
    /\ handle_call.op # "drop"
    /\ handle_call' = HandleCalled("drop", 0, "Ok",
                                   [k \in 1..Len(Drained(interfaces)) |->
                                       Native("libusb_release_interface", Drained(interfaces)[k])]
                                   \o << Native("libusb_close", 0) >>)
    /\ interfaces' = DrainedSet(interfaces)
    /\ last_call' = Called("next_none", 0, ClaimedInterfaces_is_claimed(DrainedSet(interfaces), 0))
    /\ UNCHANGED <<transfer_vars, library_vars>>

\* ------------------------------------------------------------------- Next
Next ==
    \/ \E rt \in RequestTypes : set_control_setup(ControlSetup(rt, 0, 0, 0, MaxData))
    \/ \E dev \in Devices, rd \in BOOLEAN : submit(dev, rd)
    \/ set_active_true
    \/ native_submit
    \/ submit_failed
    \/ wait_for_inactive
    \/ wait_for_receiver
    \/ abandon
    \/ harvest
    \/ \E st \in DriverStatuses : \E n \in ActualLens(transfer, st) : system_callback(st, n)
    \/ send_completion
    \/ cancel_asynchronously
    \/ native_cancel
    \/ drop_wait_for_inactive
    \/ drop_wait_for_receiver
    \/ \E t \in EngineTransfers, b \in EngineBuffers : from_transfer_buf(t, b)
    \/ \E b \in EngineBuffers : from_parts(b)
    \/ \E rt \in RequestTypes, dev \in Devices : control_read(rt, 0, 0, 0, MaxData, dev)
    \/ \E rt \in RequestTypes, rq \in Requests, data \in Payloads(MaxData), dev \in Devices :
          control_write(rt, rq, 0, 0, data, dev)
    \/ \E bt \in {"Bulk", "Interrupt"}, e \in Endpoints, dev \in Devices :
          bulk_type_write(bt, e, MaxData, dev)
    \/ \E bt \in {"Bulk", "Interrupt"}, e \in Endpoints, dev \in Devices :
          bulk_type_read(bt, e, MaxData, dev)

Spec == Init /\ [][Next]_vars

\* The event loop keeps dispatching (a pending transfer completes and its
\* callback runs to its end) and the executor resumes a task whose recv has
\* a notification to take.
Fairness ==
    /\ WF_vars(\E st \in DriverStatuses : \E n \in ActualLens(transfer, st) : system_callback(st, n))
    /\ WF_vars(send_completion)
    /\ WF_vars(wait_for_receiver)
    /\ WF_vars(drop_wait_for_receiver)

FairSpec == Init /\ [][Next]_vars /\ Fairness

\* Drop::drop runs on the thread that drops: once begun, each of its steps
\* that can be taken is taken
DropFairness ==
    /\ Fairness
    /\ WF_vars(pc = "drop" /\ cancel_asynchronously)
    /\ WF_vars(native_cancel)
    /\ WF_vars(drop_wait_for_inactive)

DropFairSpec == Init /\ [][Next]_vars /\ DropFairness

\* ------------------------------------------ the engine with into_parts
NextParts ==
    \/ Next
    \/ into_parts
    \/ into_parts_wait_for_receiver
    \/ into_parts_abandon

PartsSpec == Init /\ [][NextParts]_vars

\* ------------------------------------------------ validation on its own
\* The synchronous part of every call (up to the end of check_transfer) over
\* all buffers and descriptors; nothing is in flight.
InitValidation ==
    /\ buf \in Buffers
    /\ transfer \in Transfers
    /\ is_active = FALSE
    /\ chan = 0
    /\ pending = FALSE
    /\ cb = "idle"
    /\ pc = "idle"
    /\ op = "submit"
    /\ result = Returned("submit", NoResult)
    /\ interfaces = ClaimedInterfaces_new
    /\ last_call = NoCall
    /\ handle_call = NoHandleCall
    /\ InitLibrary

NextValidation ==
    \/ \E s \in Setups : set_control_setup(s)
    \/ \E dev \in Devices, rd \in BOOLEAN : submit(dev, rd)
    \/ cancel_asynchronously
    \/ \E t \in Transfers, b \in Buffers : from_transfer_buf(t, b)
    \/ \E rt \in RequestTypes, n \in DataLens, dev \in Devices : control_read(rt, 0, 0, 0, n, dev)
    \/ \E rt \in RequestTypes, rq \in Requests, n \in DataLens, dev \in Devices :
          \E data \in Payloads(n) : control_write(rt, rq, 0, 0, data, dev)
    \/ \E bt \in {"Bulk", "Interrupt"}, e \in Endpoints, n \in DataLens, dev \in Devices :
          bulk_type_write(bt, e, n, dev)
    \/ \E bt \in {"Bulk", "Interrupt"}, e \in Endpoints, n \in DataLens, dev \in Devices :
          bulk_type_read(bt, e, n, dev)

ValidationSpec == InitValidation /\ [][NextValidation]_vars

\* ------------------------------------------------- completion on its own
\* One SafeTransfer submitted again and again, never dropped, with a driver
\* that ends a transfer in any status and with any count up to the length
\* submitted.
\* the buffer each kind of transfer is completed on
CompletionBuffer(ty) ==
    IF ty = "Control"
    THEN serialize(ControlSetup(LIBUSB_ENDPOINT_OUT, 0, 0, 0, MaxData), Zeros(SIZE + MaxData))
    ELSE Zeros(MaxData + 1)

InitCompletion ==
    /\ transfer \in {t \in EngineTransfers : t.transfer_type \in {"Control", "Bulk", "Interrupt"}}
    /\ buf = CompletionBuffer(transfer.transfer_type)
    /\ is_active = FALSE
    /\ chan = 0
    /\ pending = FALSE
    /\ cb = "idle"
    /\ pc = "idle"
    /\ op = "submit"
    /\ result = Returned("submit", NoResult)
    /\ interfaces = ClaimedInterfaces_new
    /\ last_call = NoCall
    /\ handle_call = NoHandleCall
    /\ InitLibrary

NextCompletion ==
    \/ \E dev \in Devices, rd \in BOOLEAN : submit(dev, rd)
    \/ set_active_true
    \/ native_submit
    \/ submit_failed
    \/ wait_for_inactive
    \/ wait_for_receiver
    \/ harvest
    \/ \E st \in Statuses : \E n \in 0..PayloadLen(transfer) : system_callback(st, n)
    \/ send_completion

CompletionSpec == InitCompletion /\ [][NextCompletion]_vars

\* ------------------------------------------------- AsyncDevice on its own
\* The operations of one AsyncDevice, each on a SafeTransfer of its own that
\* lives from the call to its return (or to the drop of its future).
InitDevice ==
    /\ buf = Zeros(0)
    /\ transfer = Transfer_new
    /\ is_active = FALSE
    /\ chan = 0
    /\ pending = FALSE
    /\ cb = "idle"
    /\ pc = "dropped"
    /\ op = "submit"
    /\ result = Returned("submit", NoResult)
    /\ interfaces = ClaimedInterfaces_new
    /\ last_call = NoCall
    /\ handle_call = NoHandleCall
    /\ InitLibrary

NextDevice ==
    \/ \E rt \in RequestTypes, dev \in Devices : control_read(rt, 0, 0, 0, MaxData, dev)
    \/ \E rt \in RequestTypes, rq \in Requests, data \in Payloads(MaxData), dev \in Devices :
          control_write(rt, rq, 0, 0, data, dev)
    \/ \E bt \in {"Bulk", "Interrupt"}, e \in Endpoints, dev \in Devices :
          bulk_type_write(bt, e, MaxData, dev)
    \/ \E bt \in {"Bulk", "Interrupt"}, e \in Endpoints, dev \in Devices :
          bulk_type_read(bt, e, MaxData, dev)
    \/ \E i \in StringIndexes, l \in LangIds, dev \in Devices :
          get_string_descriptor_bytes(i, l, MaxData, dev)
    \/ \E i \in StringIndexes, l \in LangIds, dev \in Devices : get_string_descriptor(i, l, dev)
    \/ \E i \in StringIndexes, dev \in Devices : get_string_descriptor_ascii(i, dev)
    \/ set_active_true
    \/ native_submit
    \/ submit_failed
    \/ wait_for_inactive
    \/ wait_for_receiver
    \/ abandon
    \/ harvest
    \/ \E st \in DriverStatuses : \E n \in ActualLens(transfer, st) : system_callback(st, n)
    \/ send_completion
    \/ cancel_asynchronously
    \/ native_cancel
    \/ drop_wait_for_inactive
    \/ drop_wait_for_receiver

DeviceSpec == InitDevice /\ [][NextDevice]_vars

\* ---------------------------------------------------- the claim set alone
\* ClaimedInterfaces::new(), then any sequence of claim and release; no
\* transfer is made
InitInterfaces ==
    /\ buf = Zeros(SIZE + MaxData)
    /\ transfer = Transfer_new
    /\ is_active = FALSE
    /\ chan = 0
    /\ pending = FALSE
    /\ cb = "idle"
    /\ pc = "idle"
    /\ op = "submit"
    /\ result = Returned("submit", NoResult)
    /\ interfaces = ClaimedInterfaces_new
    /\ last_call = NoCall
    /\ handle_call = NoHandleCall
    /\ InitLibrary

NextInterfaces ==
    \/ \E interface \in InterfaceNumbers : claim(interface)
    \/ \E interface \in InterfaceNumbers : release(interface)

InterfacesSpec == InitInterfaces /\ [][NextInterfaces]_vars

\* ------------------------------------------- the claim set and its drain
\* ClaimedInterfaces::new(), then claim, release and the iterator's next
NextDrain ==
    \/ \E interface \in DrainNumbers : claim(interface)
    \/ \E interface \in DrainNumbers : release(interface)
    \/ next

DrainSpec == InitInterfaces /\ [][NextDrain]_vars

\* ---------------------------------------- the SingleTransferDevice alone
\* SingleTransferDevice::new (InactiveTransfer::new: vec![], Transfer::new(0),
\* SafeTransferAsyncLink::new) and the operations on it, each with its
\* submit and the drop of its SafeTransfer
NextSingle ==
    \/ \E rt \in RequestTypes, dev \in Devices :
          SingleTransferDevice_control_read(rt, 0, 0, 0, MaxData, dev)
    \/ \E rt \in RequestTypes, rq \in Requests, data \in Payloads(MaxData), dev \in Devices :
          SingleTransferDevice_control_write(rt, rq, 0, 0, data, dev)
    \/ \E bt \in {"Bulk", "Interrupt"}, e \in Endpoints, dev \in Devices :
          SingleTransferDevice_bulk_type_write(bt, e, MaxData, dev)
    \/ \E bt \in {"Bulk", "Interrupt"}, e \in Endpoints, dev \in Devices :
          SingleTransferDevice_bulk_type_read(bt, e, MaxData, dev)
    \/ set_active_true
    \/ native_submit
    \/ submit_failed
    \/ wait_for_inactive
    \/ wait_for_receiver
    \/ abandon
    \/ harvest
    \/ \E st \in DriverStatuses : \E n \in ActualLens(transfer, st) : system_callback(st, n)
    \/ send_completion
    \/ cancel_asynchronously
    \/ native_cancel
    \/ drop_wait_for_inactive
    \/ drop_wait_for_receiver

SingleSpec == InitDevice /\ [][NextSingle]_vars

\* ------------------------------------------- a SafeTransfer and its setters
\* A bulk transfer held by its owner, who submits it, may drop the future of
\* a submit while it waits, and calls the setters between submits
InitSetters ==
    /\ transfer = [Transfer_new EXCEPT !.transfer_type = "Bulk", !.endpoint = 1]
    /\ buf = Zeros(MaxData + 1)
    /\ is_active = FALSE
    /\ chan = 0
    /\ pending = FALSE
    /\ cb = "idle"
    /\ pc = "idle"
    /\ op = "submit"
    /\ result = Returned("submit", NoResult)
    /\ interfaces = ClaimedInterfaces_new
    /\ last_call = NoCall
    /\ handle_call = NoHandleCall
    /\ InitLibrary

NextSetters ==
    \/ \E ty \in {"Bulk", "Interrupt"} : set_type(ty)
    \/ \E e \in Endpoints : set_endpoint(e)
    \/ \E timeout \in Timeouts : set_timeout(timeout)
    \/ \E dev \in Devices, rd \in BOOLEAN : submit(dev, rd)
    \/ set_active_true
    \/ native_submit
    \/ submit_failed
    \/ wait_for_inactive
    \/ wait_for_receiver
    \/ abandon
    \/ harvest
    \/ \E st \in DriverStatuses : \E n \in ActualLens(transfer, st) : system_callback(st, n)
    \/ send_completion

SetterSpec == InitSetters /\ [][NextSetters]_vars

\* ------------------------------------------------- the DeviceHandle alone
\* One handle from from_libusb to its drop
NextHandle ==
    \/ \E interface \in DrainNumbers : claim_interface(interface)
    \/ \E interface \in DrainNumbers : release_interface(interface)
    \/ DeviceHandle_drop

HandleSpec == InitInterfaces /\ [][NextHandle]_vars

\* ------------------------------------------------------ Version on its own
NextVersion ==
    \E major \in Majors, minor \in Minors, sub_minor \in SubMinors :
        Version_new(major, minor, sub_minor)

VersionSpec == InitInterfaces /\ [][NextVersion]_vars

\* ------------------------------------------------ AsyncContext on its own
NextAsync ==
    \/ with_arc
    \/ loop_test
    \/ loop_poll
    \/ AsyncContext_drop
    \/ AsyncContext_drop_join

\* the thread of the loop runs, a poll returns within its timeout, and the
\* join returns once the thread has ended
AsyncFairness ==
    /\ WF_vars(loop_test)
    /\ WF_vars(loop_poll)
    /\ WF_vars(AsyncContext_drop_join)

AsyncSpec == InitInterfaces /\ [][NextAsync]_vars /\ AsyncFairness

\* ----------------------------------------------------- Context on its own
NextContext ==
    \/ Context_default
    \/ Context_new
    \/ \E is_default \in BOOLEAN : Context_drop(is_default)

ContextSpec == InitInterfaces /\ [][NextContext]_vars

\* ================================================================= claims
SupportedKinds == {"Control", "Bulk", "Interrupt"}

\* a step that is a call of submit_read / submit_write
SubmitStep == \E dev \in Devices, rd \in BOOLEAN : submit(dev, rd)

\* a direct call whose direction is the one the descriptor / setup asks for
WellDirected(rd) ==
    IF transfer.transfer_type = "Control"
    THEN has_control_setup(buf) /\ is_read(deserialize(buf)) = rd
    ELSE is_endpoint_read(transfer) = rd

\* C1: a submit_read / submit_write (of the right direction) on a supported
\* kind while the previous submission is pending returns Busy at once, and
\* while a submission stays pending its active flag is not cleared.
C1_SecondSubmitBusy ==
    [][ /\ \A dev \in Devices, rd \in BOOLEAN :
              ( /\ submit(dev, rd)
                /\ is_active /\ pending
                /\ transfer.transfer_type \in SupportedKinds
                /\ WellDirected(rd) )
              => (pc' = "idle" /\ result'.err = "Busy")
        /\ (pending /\ pending' /\ is_active) => is_active'
      ]_vars

\* C2: a submit call made while a submission is pending ends at the Busy
\* check: it does not go on to the native submit and leaves every field of
\* the descriptor as it was.
C2_BusyBeforeNative ==
    [][ (SubmitStep /\ is_active /\ pending /\ transfer.transfer_type \in SupportedKinds)
        => (pc' = "idle" /\ transfer' = transfer) ]_vars

\* C3: the fields of a SafeTransfer are released by drop only when no native
\* submission is pending.
C3_ReleaseAfterCompletion == (pc = "dropped") => ~pending

\* C4: submit reads status and actual length only after the callback of the
\* submission it waited for has fired.
C4_ResultAfterCallback == (pc = "harvest") => ~pending

C6_ActiveIffPending ==
    (pc \notin {"native", "submit_failed"}) => (is_active <=> pending)

\* C7: the channel holds at most one notification, and when a submit call has
\* returned and nothing is in flight any more the slot is empty.
C7_SlotEmptyAfterReturn ==
    /\ chan <= ChannelCapacity
    /\ (pc = "idle" /\ result.op = "submit" /\ result.err # "None"
        /\ ~pending /\ cb = "idle") => chan = 0

\* C8: a bulk or interrupt read on an OUT endpoint, or write on an IN
\* endpoint, returns InvalidParam from the call itself: the call ends before
\* the native submit, and flag, channel and native state are untouched.
C8_DirectionMismatch ==
    [][ /\ \A dev \in Devices, rd \in BOOLEAN :
              ( /\ submit(dev, rd)
                /\ transfer.transfer_type \in {"Bulk", "Interrupt"}
                /\ is_endpoint_read(transfer) # rd )
              => /\ pc' = "idle"
                 /\ result' = Returned("submit", Err("InvalidParam"))
                 /\ UNCHANGED <<is_active, chan, pending>>
        /\ \A bt \in {"Bulk", "Interrupt"}, e \in Endpoints, dev \in Devices :
              /\ (bulk_type_read(bt, e, MaxData, dev) /\ DirBits(e) = LIBUSB_ENDPOINT_OUT)
                 => /\ pc' = "drop"
                    /\ result' = Returned("bulk_type_read", Err("InvalidParam"))
                    /\ ~is_active' /\ chan' = 0 /\ ~pending'
              /\ (bulk_type_write(bt, e, MaxData, dev) /\ DirBits(e) = LIBUSB_ENDPOINT_IN)
                 => /\ pc' = "drop"
                    /\ result' = Returned("bulk_type_write", Err("InvalidParam"))
                    /\ ~is_active' /\ chan' = 0 /\ ~pending'
      ]_vars
C8_Witness ==
    /\ pc = "dropped"
    /\ result = Returned("bulk_type_read", Err("InvalidParam"))
    /\ transfer.endpoint = 1
    /\ ~is_active /\ chan = 0 /\ ~pending

\* C9: control_read passes validation with an IN request type and returns
\* InvalidParam with an OUT one; control_write passes with OUT and returns
\* InvalidParam with IN.
C9_ControlDirection ==
    [][ \A rt \in RequestTypes, dev \in Devices :
          /\ control_read(rt, 0, 0, 0, MaxData, dev)
             => IF DirBits(rt) = LIBUSB_ENDPOINT_IN
                THEN pc' = "set_active"
                ELSE pc' = "drop" /\ result'.err = "InvalidParam"
          /\ (\E rq \in Requests, data \in Payloads(MaxData) : control_write(rt, rq, 0, 0, data, dev))
             => IF DirBits(rt) = LIBUSB_ENDPOINT_OUT
                THEN pc' = "set_active"
                ELSE pc' = "drop" /\ result'.err = "InvalidParam"
      ]_vars

\* C10: a control submission on a buffer shorter than the header, or whose
\* declared length exceeds the room after the header, returns Overflow; every
\* buffer of at least header size whose declared length fits is not turned
\* down for its size (control_write with no data included).
DeclaredLenFits(b) == Len(b) >= SIZE /\ deserialize(b).len <= Len(b) - SIZE
C10_ControlLength ==
    [][ /\ \A dev \in Devices, rd \in BOOLEAN :
              (submit(dev, rd) /\ transfer.transfer_type = "Control")
              => IF DeclaredLenFits(buf)
                 THEN result'.err \notin {"Overflow", "NotFound"}
                 ELSE pc' = "idle" /\ result'.err = "Overflow"
        /\ \A rt \in RequestTypes, rq \in Requests, n \in DataLens, dev \in Devices :
              ( /\ DirBits(rt) = LIBUSB_ENDPOINT_OUT
                /\ \E data \in Payloads(n) : control_write(rt, rq, 0, 0, data, dev) )
              => pc' = "set_active"
      ]_vars

\* C11: when the native layer refuses the submit, the call returns that error
\* without suspending and the bridge is disarmed: the flag is false and no
\* notification is held or on its way; a drop of a disarmed SafeTransfer
\* releases it without a native cancel and without waiting.
C11_SubmitFailureDisarms ==
    [][ /\ submit_failed
           => /\ pc' = AfterReturn(op)
              /\ result'.err \in SubmitErrors \cup {"Busy"}
              /\ ~is_active'
              /\ chan' = 0 /\ cb' = "idle"
        /\ (cancel_asynchronously /\ ~is_active) => pc' = "dropped"
      ]_vars

\* C12: the value submit returns after the wait is fixed by the status the
\* driver left: Completed gives Ok(actual_length), TimedOut Timeout, Stall
\* Pipe, NoDevice NoDevice, Cancelled Io, Overflow Overflow; the count plays
\* no part unless the status is Completed.
StatusOutcome(st, n) ==
    CASE st = "Completed" -> {Ok(n)}
      [] st = "TimedOut" -> {Err("Timeout")}
      [] st = "Stall" -> {Err("Pipe")}
      [] st = "NoDevice" -> {Err("NoDevice")}
      [] st = "Cancelled" -> {Err("Io")}
      [] st = "Overflow" -> {Err("Overflow")}
      [] OTHER -> {Err(e) : e \in {"Io", "Other"}}
C12_StatusMapping ==
    [][ harvest => \E r \in StatusOutcome(transfer.status, transfer.actual_length) :
                       result' = Returned(op, r) ]_vars
C12_Witness ==
    /\ pc = "idle" /\ ~pending
    /\ transfer.status = "TimedOut" /\ transfer.actual_length > 0
    /\ result = Returned("submit", Err("Timeout"))

\* C13: a count returned as Ok(n) lies within the payload room of the buffer
\* the call was made on: the whole buffer for bulk and interrupt, the part
\* after the header for control.
PayloadCapacity(t, b) ==
    IF t.transfer_type = "Control" THEN Len(b) - SIZE ELSE Len(b)
C13_CountWithinBuffer ==
    [][ (harvest /\ result'.err = "Ok")
        => (0 <= result'.len /\ result'.len <= PayloadCapacity(transfer, buf)) ]_vars

\* C14: control_write with an OUT request type and k >= 1 bytes passes
\* validation with a control descriptor on endpoint 0 over the buffer
\* "8-byte little-endian header with len = k, then the k bytes"; the buffer
\* stays so until the call returns, the result is read only after the
\* completion, and a completion with actual_length = k returns Ok(k).
WireImage(request_type, request, value, index, data) ==
    << request_type, request, value % 256, value \div 256,
       index % 256, index \div 256, Len(data) % 256, Len(data) \div 256 >> \o data
InControlWrite == op = "control_write" /\ pc \in {"set_active", "native", "wait", "recv", "harvest"}
C14_ControlWriteWire ==
    [][ /\ \A rt \in RequestTypes, rq \in Requests, data \in Payloads(MaxData), dev \in Devices :
              (control_write(rt, rq, 0, 0, data, dev) /\ DirBits(rt) = LIBUSB_ENDPOINT_OUT)
              => /\ pc' = "set_active"
                 /\ buf' = WireImage(rt, rq, 0, 0, data)
                 /\ transfer'.transfer_type = "Control" /\ transfer'.endpoint = 0
                 /\ transfer'.buffer = "buf" /\ transfer'.length = SIZE + Len(data)
        /\ InControlWrite => buf' = buf
        /\ (InControlWrite /\ native_submit) => ~pending
        /\ (InControlWrite /\ harvest)
              => /\ ~pending
                 /\ (transfer.status = "Completed" /\ transfer.actual_length = MaxData)
                    => result' = Returned("control_write", Ok(MaxData))
      ]_vars
C14_Witness ==
    /\ pc = "drop"
    /\ result = Returned("control_write", Ok(MaxData))
    /\ buf = WireImage(32, 12, 0, 0, [i \in 1..MaxData |-> 3])
    /\ transfer.status = "Completed" /\ transfer.actual_length = MaxData

\* C15: submitting a descriptor of kind isochronous or stream returns the
\* error NotSupported from the call; the native submit is not reached and
\* flag, channel and native state are untouched.
C15_UnsupportedKindRejected ==
    [][ \A dev \in Devices, rd \in BOOLEAN :
          (submit(dev, rd) /\ transfer.transfer_type \in {"Isochronous", "Stream"})
          => /\ pc' = "idle"
             /\ result' = Returned("submit", Err("NotSupported"))
             /\ UNCHANGED <<is_active, chan, pending>>
      ]_vars

\* C16: a drop whose native cancel is refused because the transfer has
\* completed in the meantime (the callback fired after the flag was read)
\* still ends with the SafeTransfer released in the ordinary way.
C16_CancelAfterCompletionTolerated ==
    [][ (native_cancel /\ ~pending) => pc' \in {"drop_wait", "dropped"} ]_vars

\* C17: when the native layer refuses the cancel of a transfer that is still
\* pending, the process stops: the fields of the SafeTransfer are not
\* released with the transfer pending.
C17_RefusedCancelStops ==
    [][ (native_cancel /\ pending /\ pc' # "drop_wait") => pc' = "aborted" ]_vars

\* C18: get_string_descriptor_bytes and get_string_descriptor with index 0
\* return InvalidParam and touch no transfer; with an index >= 1 they pass
\* validation with a control read GET_DESCRIPTOR whose value is
\* STRING << 8 | index and whose index field is the language ID.
StringReadIssued(i, l) ==
    /\ pc' = "set_active"
    /\ transfer'.transfer_type = "Control"
    /\ is_read(deserialize(buf'))
    /\ deserialize(buf').request = LIBUSB_REQUEST_GET_DESCRIPTOR
    /\ deserialize(buf').value = LIBUSB_DT_STRING * 256 + i
    /\ deserialize(buf').index = l
C18_StringIndex ==
    [][ \A i \in StringIndexes, l \in LangIds, dev \in Devices :
          (get_string_descriptor_bytes(i, l, MaxData, dev) \/ get_string_descriptor(i, l, dev))
          => IF i = 0
             THEN /\ result'.err = "InvalidParam"
                  /\ UNCHANGED <<buf, transfer, is_active, chan, pending, cb, pc>>
             ELSE StringReadIssued(i, l)
      ]_vars

\* C19: get_string_descriptor_ascii with an index >= 1 first issues the read
\* of the language-ID table: descriptor index 0 with language ID 0, into 2
\* bytes.
C19_AsciiReadsLanguageTable ==
    [][ \A i \in StringIndexes \ {0}, dev \in Devices :
          get_string_descriptor_ascii(i, dev)
          => (StringReadIssued(0, 0) /\ deserialize(buf').len = 2)
      ]_vars

\* C21: releasing an interface that is not claimed leaves the claim set as it
\* is, and releasing an interface right after claiming it on a set where it
\* was not claimed gives that set back.
C21_ReleaseRestores ==
    \A n \in 0..INTERFACES_MAX :
        ~ClaimedInterfaces_is_claimed(interfaces, n)
        => /\ ClaimedInterfaces_release(interfaces, n) = interfaces
           /\ ClaimedInterfaces_release(ClaimedInterfaces_claim(interfaces, n), n) = interfaces
           /\ ~ClaimedInterfaces_is_claimed(
                  ClaimedInterfaces_release(ClaimedInterfaces_claim(interfaces, n), n), n)
C21_Witness ==
    /\ last_call = Called("release", 7, TRUE)
    /\ interfaces = [ClaimedInterfaces_new EXCEPT ![0] = 64]

\* C22: a claim or a release of n changes the membership of n alone: every
\* other interface number is claimed after the call exactly if it was before.
C22_OnlyOwnMembership ==
    [][ \A n \in InterfaceNumbers :
          (claim(n) \/ release(n))
          => \A m \in 0..INTERFACES_MAX :
                 (m # n) => (ClaimedInterfaces_is_claimed(interfaces', m)
                             <=> ClaimedInterfaces_is_claimed(interfaces, m))
      ]_vars
C22_Witness ==
    /\ last_call = Called("claim", 6, FALSE)
    /\ interfaces = [ClaimedInterfaces_new EXCEPT ![0] = 64]
    /\ \A m \in 0..INTERFACES_MAX : ClaimedInterfaces_is_claimed(interfaces, m) <=> m = 6

\* C23: a new claim set has nothing claimed, and in every state that claim,
\* release and next lead to, any_claimed holds exactly if some interface is
\* claimed and none_claimed exactly if any_claimed does not.
C23_AnyNoneClaimed ==
    /\ \A n \in 0..INTERFACES_MAX : ~ClaimedInterfaces_is_claimed(ClaimedInterfaces_new, n)
    /\ ~any_claimed(ClaimedInterfaces_new)
    /\ any_claimed(interfaces)
       <=> \E n \in 0..INTERFACES_MAX : ClaimedInterfaces_is_claimed(interfaces, n)
    /\ none_claimed(interfaces) <=> ~any_claimed(interfaces)
C23_Witness ==
    /\ last_call.op = "next"
    /\ any_claimed(interfaces) /\ ~none_claimed(interfaces)
    /\ ClaimedInterfaces_is_claimed(interfaces, 201)

\* C24: next called until it returns None yields the claimed interface
\* numbers, each once, in ascending order.
RECURSIVE Ascending(_)
Ascending(S) ==
    IF S = {} THEN << >>
    ELSE LET lo == CHOOSE x \in S : \A y \in S : x <= y IN << lo >> \o Ascending(S \ {lo})
ClaimedSet(c) == {n \in 0..INTERFACES_MAX : ClaimedInterfaces_is_claimed(c, n)}
C24_DrainYieldsClaimed == Drained(interfaces) = Ascending(ClaimedSet(interfaces))

\* C25: a next that returns Some(n) clears the membership of n and of nothing
\* else, and when next returns None nothing is claimed.
C25_NextClearsOne ==
    [][ next
        => IF last_call'.op = "next"
           THEN /\ ClaimedInterfaces_is_claimed(interfaces, last_call'.interface)
                /\ ClaimedSet(interfaces') = ClaimedSet(interfaces) \ {last_call'.interface}
           ELSE none_claimed(interfaces')
      ]_vars

\* C26: claim_interface on an interface recorded as claimed, and
\* release_interface on one not recorded as claimed, return Ok, make no
\* native call and leave the claim set as it is.
C26_RedundantCallsAreNoOps ==
    [][ \A n \in DrainNumbers :
          /\ (claim_interface(n) /\ ClaimedInterfaces_is_claimed(interfaces, n))
             => /\ handle_call' = HandleCalled("claim_interface", n, "Ok", << >>)
                /\ interfaces' = interfaces
          /\ (release_interface(n) /\ ~ClaimedInterfaces_is_claimed(interfaces, n))
             => /\ handle_call' = HandleCalled("release_interface", n, "Ok", << >>)
                /\ interfaces' = interfaces
      ]_vars
C26_Witness ==
    /\ handle_call = HandleCalled("claim_interface", 6, "Ok", << >>)
    /\ ClaimedInterfaces_is_claimed(interfaces, 6)

\* C27: the drop of a handle calls the native release once for each
\* interface recorded as claimed and for no other, in ascending order, and
\* then the native close, once.
C27_TeardownReleases ==
    [][ DeviceHandle_drop
        => handle_call'.native =
              [k \in 1..Cardinality(ClaimedSet(interfaces)) |->
                  Native("libusb_release_interface", Ascending(ClaimedSet(interfaces))[k])]
              \o << Native("libusb_close", 0) >>
      ]_vars

\* C28: for every ControlSetup s, deserialize(serialize(s)) is s field by
\* field, and the 8 bytes serialize writes are request_type, request, then
\* value, index and len each low byte first, on a host of either byte order.
LittleEndianImage(s) ==
    << s.request_type, s.request, s.value % 256, s.value \div 256,
       s.index % 256, s.index \div 256, s.len % 256, s.len \div 256 >>
C28_SetupRoundTrip ==
    [][ \A s \in Setups :
          (set_control_setup(s) /\ set_control_setup_ok(buf))
          => /\ SubSeq(buf', 1, SIZE) = LittleEndianImage(s)
             /\ \A host \in Hosts :
                   /\ SubSeq(serialize_on(host, s, buf), 1, SIZE) = LittleEndianImage(s)
                   /\ deserialize_on(host, serialize_on(host, s, buf)) = s
                   /\ deserialize_on(host, buf') = s
                   /\ serialize(s, buf) = serialize_on(host, s, buf)
                   /\ deserialize(buf') = s
      ]_vars
C28_Witness ==
    /\ result = Returned("set_control_setup", Ok(0))
    /\ SubSeq(buf, 1, SIZE) = << 128, 6, 2, 3, 9, 4, 2, 1 >>

\* C29: while a submission of a SafeTransfer is pending no public operation
\* changes the transfer kind, the endpoint, the timeout, or the buffer's
\* address and length: they stay as they were until the callback fires.
DriverConfiguration(t, b) ==
    << t.transfer_type, t.endpoint, t.timeout, t.buffer, t.length, Len(b) >>
C29_ConfigurationFrozenWhilePending ==
    [][ (pending /\ is_active /\ pending')
        => DriverConfiguration(transfer', buf') = DriverConfiguration(transfer, buf) ]_vars

\* C30: each SingleTransferDevice operation submits a transfer of the same
\* kind, endpoint, buffer length and header, and with the same verdict, as
\* the AsyncDevice operation of the same arguments, after any earlier
\* operations on the device.
\* what AsyncDevice's control operation with setup s on buffer b comes to
AsyncControl(s, b, dev) ==
    IF set_control_setup_ok(b)
    THEN [buf |-> serialize(s, b),
          transfer |-> set_device(set_fields(Transfer_new, serialize(s, b)), dev),
          verdict |-> check_transfer(set_device(set_fields(Transfer_new, serialize(s, b)), dev),
                                     serialize(s, b), FALSE, FALSE)]
    ELSE [buf |-> b, transfer |-> Transfer_new, verdict |-> "Overflow"]
\* what AsyncDevice's bulk/interrupt operation comes to
AsyncBulk(bt, endpoint, n, dev, rd) ==
    LET t == set_device(set_fields([Transfer_new EXCEPT !.transfer_type = bt,
                                                        !.endpoint = endpoint], Zeros(n)), dev)
    IN [buf |-> Zeros(n), transfer |-> t, verdict |-> check_transfer(t, Zeros(n), FALSE, rd)]
HeaderOf(b) == SubSeq(b, 1, IF Len(b) < SIZE THEN Len(b) ELSE SIZE)
\* this step went the way a does: same kind, endpoint, length and header,
\* and accepted or refused with the same error
SameAs(a) ==
    /\ transfer'.transfer_type = a.transfer.transfer_type
    /\ transfer'.endpoint = a.transfer.endpoint
    /\ Len(buf') = Len(a.buf)
    /\ HeaderOf(buf') = HeaderOf(a.buf)
    /\ IF a.verdict = "Ok" THEN pc' = "set_active" ELSE result'.err = a.verdict
C30_SingleEquivalentToAsync ==
    [][ /\ \A rt \in RequestTypes, dev \in Devices :
             SingleTransferDevice_control_read(rt, 0, 0, 0, MaxData, dev)
             => SameAs(AsyncControl(ControlSetup(rt, 0, 0, 0, MaxData), Zeros(MaxData + SIZE), dev))
        /\ \A rt \in RequestTypes, rq \in Requests, data \in Payloads(MaxData), dev \in Devices :
             SingleTransferDevice_control_write(rt, rq, 0, 0, data, dev)
             => SameAs(AsyncControl(ControlSetup(rt, rq, 0, 0, Len(data)), Zeros(SIZE) \o data, dev))
        /\ \A bt \in {"Bulk", "Interrupt"}, e \in Endpoints, dev \in Devices :
             /\ SingleTransferDevice_bulk_type_write(bt, e, MaxData, dev)
                => SameAs(AsyncBulk(bt, e, MaxData, dev, FALSE))
             /\ SingleTransferDevice_bulk_type_read(bt, e, MaxData, dev)
                => SameAs(AsyncBulk(bt, e, MaxData, dev, TRUE))
      ]_vars

\* C31: the request to cancel a pending transfer does not complete it: the
\* request clears no flag and posts no notification, the flag of a transfer
\* whose cancel was requested goes false only in the callback of the driver,
\* and a submit that reads the status Cancelled returns the Io error.
CancelRequested == pc \in {"cancel", "drop_wait", "drop_recv"}
C31_CancelDoesNotComplete ==
    [][ /\ (cancel_asynchronously \/ native_cancel)
           => (is_active' = is_active /\ chan' = chan /\ cb' = cb /\ pending' = pending)
        /\ (CancelRequested /\ pending) => is_active
        /\ (CancelRequested /\ is_active /\ ~is_active')
           => (pending /\ ~pending' /\ cb = "idle" /\ cb' = "try_send")
        /\ (harvest /\ transfer.status = "Cancelled") => result' = Returned(op, Err("Io"))
      ]_vars
C31_Witness ==
    /\ pc = "drop_recv"
    /\ transfer.status = "Cancelled"
    /\ ~pending /\ ~is_active /\ cb = "try_send" /\ chan = 0

\* C32: Version::new(major, minor, sub_minor) panics exactly when minor or
\* sub_minor is greater than 15; for every other input the Version it
\* returns gives the arguments back from major(), minor() and sub_minor().
C32_VersionNew ==
    version.ret # "None"
    => /\ (version.ret = "Panic") <=> (version.minor > 15 \/ version.sub_minor > 15)
       /\ (version.minor <= 15 /\ version.sub_minor <= 15)
          => /\ version.ret = "Ok"
             /\ Version_major(version.value) = version.major
             /\ Version_minor(version.value) = version.minor
             /\ Version_sub_minor(version.value) = version.sub_minor

\* C33: through claim_interface and release_interface calls whose native
\* calls may fail, the claim set holds n exactly when the last native call on
\* n that succeeded was a claim: a native claim that fails returns the error
\* and leaves the set as it was, a native release that fails returns the
\* error and leaves n recorded as claimed.
C33_SetFollowsNativeSuccess ==
    [][ handle_call'.op \in {"claim_interface", "release_interface"}
        => /\ \A n \in 0..INTERFACES_MAX :
                LET succeeded == /\ handle_call'.interface = n
                                 /\ handle_call'.ret = "Ok"
                                 /\ handle_call'.native # << >>
                IN /\ (succeeded /\ handle_call'.op = "claim_interface")
                      => ClaimedInterfaces_is_claimed(interfaces', n)
                   /\ (succeeded /\ handle_call'.op = "release_interface")
                      => ~ClaimedInterfaces_is_claimed(interfaces', n)
                   /\ ~succeeded
                      => (ClaimedInterfaces_is_claimed(interfaces', n)
                          <=> ClaimedInterfaces_is_claimed(interfaces, n))
           /\ handle_call'.ret # "Ok"
              => /\ interfaces' = interfaces
                 /\ handle_call'.native # << >>
                 /\ handle_call'.op = "claim_interface" => handle_call'.ret \in ClaimErrors
                 /\ handle_call'.op = "release_interface"
                    => /\ handle_call'.ret \in ReleaseErrors
                       /\ ClaimedInterfaces_is_claimed(interfaces', handle_call'.interface)
      ]_vars
C33_Witness ==
    /\ handle_call = HandleCalled("release_interface", 6, "NoDevice",
                                  << Native("libusb_release_interface", 6) >>)
    /\ ClaimedInterfaces_is_claimed(interfaces, 6)

\* C34: on a SingleTransferDevice every control_read and control_write that
\* goes on to the driver does so with transfer kind Control and endpoint 0,
\* whatever operations came before it on the device.
C34_ControlKeepsItsKind ==
    [][ ( /\ \/ \E rt \in RequestTypes, dev \in Devices :
                   SingleTransferDevice_control_read(rt, 0, 0, 0, MaxData, dev)
             \/ \E rt \in RequestTypes, rq \in Requests, data \in Payloads(MaxData), dev \in Devices :
                   SingleTransferDevice_control_write(rt, rq, 0, 0, data, dev)
          /\ pc' = "set_active" )
        => (transfer'.transfer_type = "Control" /\ transfer'.endpoint = 0) ]_vars

C36_DropTerminates ==
    /\ [][ /\ (cancel_asynchronously /\ ~pending /\ ~is_active) => pc' = "dropped"
           /\ (cancel_asynchronously /\ pending) => pc' = "cancel"
           /\ (pc \in {"drop_wait", "drop_recv"} /\ pc' = "dropped") => ~pending'
         ]_vars
    /\ (pc \in {"drop", "cancel", "drop_wait", "drop_recv"}) ~> (pc = "dropped")

\* C37: into_parts hands buffer, descriptor and link back only with the
\* transfer inactive and no native submission pending.
C37_PartsOnlyWhenInactive == (pc = "parts") => (~is_active /\ ~pending)

\* C38: the event loop of an AsyncContext polls for as long as the running
\* flag is true; the drop clears the flag, the loop ends after at most the
\* poll in progress, and the drop returns after the thread has ended: the
\* loop dispatches nothing after the drop has returned.
C38_LoopEndsWithDrop ==
    /\ [](loop_pc \in {"ended", "panicked"} => ~running)
    /\ [][AsyncContext_drop => ~running']_vars
    /\ [][actx_pc = "join" => polls' <= polls + 1]_vars
    /\ (actx_pc = "join") ~> (actx_pc = "dropped")
    /\ [](actx_pc = "dropped" => loop_pc = "ended")
    /\ [][actx_pc = "dropped" => (polls' = polls /\ events' = events)]_vars

\* C39: through creations and drops of default Contexts the counter equals
\* the number of default Contexts alive and never wraps, and libusb_exit for
\* the default context is called by the drop of the last one alive and by no
\* drop that leaves another alive.
C39_DefaultContextCount ==
    /\ [](default_count = live_defaults)
    /\ [][ (context_call'.op = "drop_default" /\ live_defaults' = live_defaults - 1)
           => (context_call'.exit <=> live_defaults = 1) ]_vars

\* C20: for every interface number and every state of the claim set, claiming
\* twice gives the state that claiming once gives; the interface is then
\* claimed, and against the state before no bit but its own has changed.
C20_ClaimIdempotent ==
    \A n \in 0..INTERFACES_MAX :
        LET once == ClaimedInterfaces_claim(interfaces, n)
            twice == ClaimedInterfaces_claim(once, n)
        IN /\ twice = once
           /\ ClaimedInterfaces_is_claimed(once, n)
           /\ \A j \in 0..(INTERFACES_BYTE_LEN - 1) :
                  (j # byte_index(n)) => once[j] = interfaces[j]
           /\ \A k \in 0..7 :
                  (k # bit_index(n))
                  => Bit(once[byte_index(n)], k) = Bit(interfaces[byte_index(n)], k)
C20_Witness ==
    /\ last_call = Called("claim", 6, TRUE)
    /\ interfaces = [ClaimedInterfaces_new EXCEPT ![0] = 64]

====
